---------------------------- MODULE Spec2Model ----------------------------
(***************************************************************************)
(* Loveletter: an in-memory message relay.  One ServerState (a Mutex      *)
(* around users, logged_in_users, messages and a Padlock) is shared by    *)
(* the tasks main() spawns, one per accepted connection; each task reads  *)
(* one ServerCommand, runs its handler under the lock and writes the      *)
(* response.                                                               *)
(***************************************************************************)
EXTENDS Integers, Sequences, FiniteSets, TLC

(***************************************************************************)
(* Bounds of the model.                                                    *)
(***************************************************************************)
\* commands accepted over the whole run
MaxCommands == 4
\* message ids Uuid::new_v4 hands out over the whole run
MaxUuids == 1

\* the same two, for the runs that fill the message store
MaxStoreCommands == 6
MaxStoreUuids == 2

\* the records of a store given to fetch_messages, and the fetches run on it
MaxRecords == 2
MaxFetches == 2

\* the tasks alive at the same time, one per open connection
Tasks == {1, 2}
Usernames == {"alice", "bob"}
Passwords == {"pw1", "pw2"}
Bodies == {"hi"}

(***************************************************************************)
(* Program constants.                                                      *)
(***************************************************************************)
NONCE_LEN == 12
TAG_LEN == 16
HMAC_LEN == 32
Byte == 256

\* the key bytes Padlock::new draws (one draw of each is modelled)
EncKeySeeds == {11}
HmacKeySeeds == {23}
\* the nonce bytes encrypt draws
NonceSeeds == {7}

(***************************************************************************)
(* Bytes and strings.                                                      *)
(***************************************************************************)
\* F applied to the value of e, which is worked out once
With(e, F(_)) == CHOOSE r \in {F(v) : v \in {e}} : TRUE

RECURSIVE SumFirst(_, _)
SumFirst(s, n) == IF n = 0 THEN 0 ELSE s[n] + SumFirst(s, n - 1)

\* the sum of the bytes of s
SumBytes(s) == With(s, LAMBDA v : SumFirst(v, Len(v)))

Repeat(b, n) == [i \in 1..n |-> b]

\* str::as_bytes on the bodies of the model
AsBytes(s) == CASE s = "hi" -> <<104, 105>>
                [] s = "" -> <<>>

\* one character of String::from_utf8_lossy, written as serde_json prints it
CharOf(b) == CASE b = 104 -> "h"
               [] b = 105 -> "i"
               [] b = 0 -> "\\u0000"
               [] OTHER -> "?"

RECURSIVE CharsFrom(_, _)
CharsFrom(bytes, i) ==
    IF i > Len(bytes) THEN "" ELSE CharOf(bytes[i]) \o CharsFrom(bytes, i + 1)

\* String::from_utf8_lossy(..).to_string()
FromUtf8Lossy(bytes) == With(bytes, LAMBDA v : CharsFrom(v, 1))

\* Uuid::new_v4().to_string(): the n-th identifier drawn
UuidString(n) == "uuid-" \o ToString(n)

MsgIds == {UuidString(n) : n \in 1..MaxUuids}

(***************************************************************************)
(* Padlock: AES-256-GCM sealing and HMAC-SHA256, as byte-level stand-ins   *)
(* for ring's primitives (a keyed stream, a keyed tag over the sealed      *)
(* bytes, a keyed tag over the data).                                      *)
(***************************************************************************)
\* byte i of the key stream of a key and a nonce (nonce_sum: its bytes added up)
KeyStream(key, nonce_sum, i) == (key * 31 + nonce_sum * 7 + i * 13) % Byte

GcmTag(key, nonce, sealed) ==
    With(key * 17 + SumBytes(nonce) + SumBytes(sealed) * 3 + Len(sealed),
         LAMBDA base : [j \in 1..TAG_LEN |-> (base + j * 5) % Byte])

\* the bytes of in_out encrypted under the key stream
Sealed(key, nonce, in_out) ==
    With(SumBytes(nonce),
         LAMBDA nonce_sum :
            [i \in 1..Len(in_out) |->
                (in_out[i] + KeyStream(key, nonce_sum, i)) % Byte])

\* the bytes of sealed decrypted under the key stream
Opened(key, nonce, sealed) ==
    With(SumBytes(nonce),
         LAMBDA nonce_sum :
            [i \in 1..Len(sealed) |->
                (sealed[i] + Byte - KeyStream(key, nonce_sum, i)) % Byte])

\* LessSafeKey::seal_in_place_append_tag: every byte of in_out is encrypted
\* and the tag is appended to it
SealInPlaceAppendTag(key, nonce, in_out) ==
    With(Sealed(key, nonce, in_out),
         LAMBDA sealed : sealed \o GcmTag(key, nonce, sealed))

\* the check of the tag and the decryption, on the split input
OpenSplit(key, nonce, sealed, tag) ==
    IF tag # GcmTag(key, nonce, sealed)
    THEN [ok |-> FALSE, bytes |-> <<>>]
    ELSE [ok |-> TRUE, bytes |-> Opened(key, nonce, sealed)]

\* LessSafeKey::open_in_place: [ok |-> FALSE] on a bad tag, else the plaintext
OpenInPlace(key, nonce, in_out) ==
    IF Len(in_out) < TAG_LEN THEN [ok |-> FALSE, bytes |-> <<>>]
    ELSE With(SubSeq(in_out, 1, Len(in_out) - TAG_LEN),
              LAMBDA sealed :
                 OpenSplit(key, nonce, sealed,
                           SubSeq(in_out, Len(in_out) - TAG_LEN + 1, Len(in_out))))

\* Padlock::encrypt with the nonce bytes the random source returned
PadlockEncrypt(p, plaintext, nonce_bytes) ==
    With(plaintext \o Repeat(0, TAG_LEN),
         LAMBDA in_out :
            nonce_bytes \o SealInPlaceAppendTag(p.encryption_key, nonce_bytes, in_out))

\* the nonce and the sealed bytes of a ciphertext that is long enough
DecryptSplit(p, nonce_bytes, encrypted) ==
    OpenInPlace(p.encryption_key, nonce_bytes, encrypted)

\* Padlock::decrypt: None is [ok |-> FALSE], Some(v) is [ok |-> TRUE, bytes |-> v]
PadlockDecrypt(p, ciphertext) ==
    IF Len(ciphertext) < NONCE_LEN + TAG_LEN THEN [ok |-> FALSE, bytes |-> <<>>]
    ELSE With(SubSeq(ciphertext, 1, NONCE_LEN),
              LAMBDA nonce_bytes :
                 With(SubSeq(ciphertext, NONCE_LEN + 1, Len(ciphertext)),
                      LAMBDA encrypted : DecryptSplit(p, nonce_bytes, encrypted)))

\* Padlock::compute_hmac
ComputeHmac(p, data) ==
    With(p.hmac_key * 29 + SumBytes(data) * 11 + Len(data) * 3,
         LAMBDA base : [j \in 1..HMAC_LEN |-> (base + j * 7) % Byte])

\* Padlock::verify_hmac
VerifyHmac(p, data, expected_tag) == ComputeHmac(p, data) = expected_tag

NonceBytes(seed) == Repeat(seed, NONCE_LEN)


(***************************************************************************)
(* Commands (inputs.rs) and results (errors.rs).                           *)
(***************************************************************************)
SignUpCommands ==
    {[action |-> "SignUp", username |-> u, password |-> p] :
        u \in Usernames, p \in Passwords}
SignInCommands ==
    {[action |-> "SignIn", username |-> u, password |-> p] :
        u \in Usernames, p \in Passwords}
SignOutCommands == {[action |-> "SignOut", username |-> u] : u \in Usernames}
SendMessageCommands ==
    {[action |-> "SendMessage", from |-> f, to |-> r, body |-> b] :
        f \in Usernames, r \in Usernames, b \in Bodies}
FetchMessagesCommands ==
    {[action |-> "FetchMessages", username |-> u] : u \in Usernames}
DeleteMessageCommands ==
    {[action |-> "DeleteMessage", username |-> u, msg_id |-> i] :
        u \in Usernames, i \in MsgIds}

\* the commands of the runs that fill the message store: one password, and
\* the ids of those runs
StoreCommands ==
    {c \in SignUpCommands \cup SignInCommands : c.password = "pw1"}
    \cup SignOutCommands \cup SendMessageCommands \cup FetchMessagesCommands
    \cup {[action |-> "DeleteMessage", username |-> u, msg_id |-> UuidString(n)] :
            u \in Usernames, n \in 1..MaxStoreUuids}

ServerCommand ==
    SignUpCommands \cup SignInCommands \cup SignOutCommands
    \cup SendMessageCommands \cup FetchMessagesCommands
    \cup DeleteMessageCommands

NoCommand == [action |-> "None"]

\* AppResult<Option<String>>: Ok(Some(text)) or Err(AppError)
Ok(text) == [tag |-> "Ok", value |-> text]
Err(e) == [tag |-> "Err", value |-> e]
NoResult == [tag |-> "None", value |-> ""]

AppError ==
    {"UserNotFound", "UsernameTaken", "InvalidCredentials", "MessageNotFound",
     "Internal"}

(***************************************************************************)
(* The collections of ServerInner and what the handlers do to them.        *)
(***************************************************************************)
EmptyMap == [u \in {} |-> ""]

\* an insert that drops the other entries
MapInsertAlone(m, k, v) == [x \in {k} |-> v]

\* HashMap::insert: the value of an existing key is replaced
MapInsert(m, k, v) == [x \in DOMAIN m \cup {k} |-> IF x = k THEN v ELSE m[x]]

\* a deletion predicate that forgets the recipient
RemovesById(m, username, msg_id) == m.id = msg_id

\* the closure of delete_message's retain, negated: the records it removes
Removes(m, username, msg_id) == m.to = username /\ m.id = msg_id

\* a retain that drops every message of the user
RetainDropsRecipient(msgs, username, msg_id) ==
    SelectSeq(msgs, LAMBDA m : m.to # username)

\* messages.retain(|m| !(m.to == username && m.id == msg_id))
Retain(msgs, username, msg_id) ==
    SelectSeq(msgs, LAMBDA m : ~Removes(m, username, msg_id))

\* the UserMessage send_message builds
NewUserMessage(id, from, to, ciphertext, digest) ==
    [id |-> id, from |-> from, to |-> to, body_enc |-> ciphertext,
     body_hash |-> digest]

\* format!("MsgID: {}, From: {}, Body: {}", m.id, m.from, body_str)
CleanEntry(id, from, body_str) ==
    "MsgID: " \o id \o ", From: " \o from \o ", Body: " \o body_str

\* the entry of a message that decrypted to the given bytes
DecryptedEntry(p, m, decrypted_bytes) ==
    LET valid_hash == VerifyHmac(p, decrypted_bytes, m.body_hash)
        body_str == FromUtf8Lossy(decrypted_bytes)
        result_str == "MsgID: " \o m.id \o ", From: " \o m.from
                      \o ", Body: " \o body_str
    IN  IF ~valid_hash
        THEN result_str \o " [WARNING: HMAC verification failed!]"
        ELSE result_str

\* one entry of fetch_messages' results
ResultEntry(p, m) ==
    With(PadlockDecrypt(p, m.body_enc),
         LAMBDA decrypted :
            IF decrypted.ok
            THEN DecryptedEntry(p, m, decrypted.bytes)
            ELSE "MsgID: " \o m.id \o ", [ERROR decrypting message]")

\* a loop that visits the user's messages newest first
GatherFromNewestFirst(p, msgs, username, i) ==
    LET mine == SelectSeq(msgs, LAMBDA m : m.to = username)
    IN  [k \in 1..Len(mine) |-> ResultEntry(p, mine[Len(mine) + 1 - k])]

RECURSIVE GatherFrom(_, _, _, _)
GatherFrom(p, msgs, username, i) ==
    IF i > Len(msgs) THEN <<>>
    ELSE IF msgs[i].to = username
    THEN <<ResultEntry(p, msgs[i])>> \o GatherFrom(p, msgs, username, i + 1)
    ELSE GatherFrom(p, msgs, username, i + 1)

\* the loop of fetch_messages over messages.iter().filter(|msg| msg.to == username)
GatherResults(p, msgs, username) == GatherFrom(p, msgs, username, 1)

RECURSIVE JoinQuoted(_, _)
JoinQuoted(entries, i) ==
    IF i > Len(entries) THEN ""
    ELSE "\"" \o entries[i] \o "\""
         \o (IF i = Len(entries) THEN "" ELSE ",")
         \o JoinQuoted(entries, i + 1)

\* serde_json::to_string(&results) of a Vec<String>
ToJsonString(entries) ==
    With(entries, LAMBDA v : "[" \o JoinQuoted(v, 1) \o "]")

(***************************************************************************)
(* Records as fetch_messages may find them: as send_message stored them,   *)
(* or with the ciphertext or the MAC changed afterwards.                   *)
(***************************************************************************)
RecordKinds == {"sent", "truncated", "flipped", "hash_altered", "consistent"}

\* the bytes with the i-th one changed
FlipByte(bytes, i) == [bytes EXCEPT ![i] = (@ + 1) % Byte]

\* the UserMessage send_message stores for a body, and what becomes of it:
\*   sent          untouched
\*   truncated     the ciphertext cut below NONCE_LEN + 16 bytes
\*   flipped       one sealed byte changed
\*   hash_altered  one byte of body_hash changed
\*   consistent    body_hash replaced by the MAC of what decrypt returns
StoredRecord(p, kind, id, from, to, body, seed) ==
    LET sent_enc == PadlockEncrypt(p, AsBytes(body), NonceBytes(seed))
        sent_hash == ComputeHmac(p, AsBytes(body))
    IN  NewUserMessage(id, from, to,
            CASE kind = "truncated" -> SubSeq(sent_enc, 1, NONCE_LEN + TAG_LEN - 1)
              [] kind = "flipped" -> FlipByte(sent_enc, NONCE_LEN + 1)
              [] OTHER -> sent_enc,
            CASE kind = "hash_altered" -> FlipByte(sent_hash, 1)
              [] kind = "consistent" ->
                    ComputeHmac(p, PadlockDecrypt(p, sent_enc).bytes)
              [] OTHER -> sent_hash)

\* the stores of up to MaxRecords such records, sent by alice
RecordStores(p) ==
    UNION {{[k \in 1..n |->
                StoredRecord(p, f[k].kind, UuidString(k), "alice", f[k].to,
                             body, seed)] :
              f \in [1..n -> [kind : RecordKinds, to : Usernames]],
              body \in Bodies, seed \in NonceSeeds} :
           n \in 0..MaxRecords}

(***************************************************************************)
(* State.                                                                  *)
(***************************************************************************)
VARIABLES
    padlock,          \* ServerInner.padlock: the two keys
    users,            \* ServerInner.users: username -> password
    logged_in_users,  \* ServerInner.logged_in_users
    messages,         \* ServerInner.messages
    holder,           \* the task holding the Mutex's guard, 0 when it is free
    poisoned,         \* the Mutex's poison flag
    pc,               \* where each task is
    cmd,              \* the ServerCommand each task parsed
    local,            \* the handler's local variables of each task
    result,           \* what process_client returned to each task
    issued,           \* commands accepted so far
    uuid_count,       \* identifiers Uuid::new_v4 has handed out so far
    serial,           \* ServerInner as the commands leave it when run one by one
    serial_result     \* the result of each task's command in that serial run

vars == <<padlock, users, logged_in_users, messages, holder, poisoned, pc, cmd,
          local, result, issued, uuid_count, serial, serial_result>>

inner_vars == <<users, logged_in_users, messages>>
serial_vars == <<serial, serial_result>>

NoLocals ==
    [stored_pass |-> "", ciphertext |-> <<>>, digest |-> <<>>,
     len_before |-> 0, len_after |-> 0]

\* ServerInner's collections as one value
Inner == [users |-> users, logged_in_users |-> logged_in_users,
          messages |-> messages]

\* the program points inside a handler, after lock() and before the guard drops
GuardedPcs ==
    {"sign_up", "sign_up_insert", "sign_in", "sign_in_check", "sign_out",
     "send_message",
     "send_encrypt", "send_hmac", "send_push", "fetch_messages",
     "fetch_gather", "delete_message", "delete_retain", "delete_check"}

InGuard == {t \in Tasks : pc[t] \in GuardedPcs}

\* ServerState::new
Init ==
    /\ padlock \in [encryption_key : EncKeySeeds, hmac_key : HmacKeySeeds]
    /\ users = EmptyMap
    /\ logged_in_users = {}
    /\ messages = <<>>
    /\ holder = 0
    /\ poisoned = FALSE
    /\ pc = [t \in Tasks |-> "idle"]
    /\ cmd = [t \in Tasks |-> NoCommand]
    /\ local = [t \in Tasks |-> NoLocals]
    /\ result = [t \in Tasks |-> NoResult]
    /\ issued = 0
    /\ uuid_count = 0
    /\ serial = [users |-> EmptyMap, logged_in_users |-> {}, messages |-> <<>>]
    /\ serial_result = [t \in Tasks |-> NoResult]

\* ServerInner with alice signed in and a store of records
RecordInit ==
    /\ padlock \in [encryption_key : EncKeySeeds, hmac_key : HmacKeySeeds]
    /\ users = [u \in Usernames |-> "pw1"]
    /\ logged_in_users = {"alice"}
    /\ messages \in RecordStores(padlock)
    /\ holder = 0
    /\ poisoned = FALSE
    /\ pc = [t \in Tasks |-> "idle"]
    /\ cmd = [t \in Tasks |-> NoCommand]
    /\ local = [t \in Tasks |-> NoLocals]
    /\ result = [t \in Tasks |-> NoResult]
    /\ issued = 0
    /\ uuid_count = Len(messages)
    /\ serial = [users |-> users, logged_in_users |-> logged_in_users,
                 messages |-> messages]
    /\ serial_result = [t \in Tasks |-> NoResult]

(***************************************************************************)
(* Each handler run from lock() to return with nothing in between: what a  *)
(* command does to ServerInner and what it returns when it runs alone.     *)
(* rand holds what the handler draws: the nonce bytes and the new id.      *)
(***************************************************************************)
NoRand == [nonce_bytes |-> <<>>, id |-> ""]

SerialSignUp(inner, c) ==
    IF c.username \in DOMAIN inner.users
    THEN [inner |-> inner, result |-> Err("UsernameTaken")]
    ELSE [inner |-> [inner EXCEPT !.users = MapInsert(@, c.username, c.password)],
          result |-> Ok("User created")]

SerialSignIn(inner, c) ==
    IF c.username \notin DOMAIN inner.users
    THEN [inner |-> inner, result |-> Err("UserNotFound")]
    ELSE IF inner.users[c.username] # c.password
    THEN [inner |-> inner, result |-> Err("InvalidCredentials")]
    ELSE [inner |-> [inner EXCEPT !.logged_in_users = @ \cup {c.username}],
          result |-> Ok(c.username \o " signed in")]

SerialSignOut(inner, c) ==
    [inner |-> [inner EXCEPT !.logged_in_users = @ \ {c.username}],
     result |-> Ok(c.username \o " signed out")]

SerialSendMessage(inner, c, p, rand) ==
    IF c.from \notin inner.logged_in_users
    THEN [inner |-> inner, result |-> Err("InvalidCredentials")]
    ELSE LET ciphertext == PadlockEncrypt(p, AsBytes(c.body), rand.nonce_bytes)
             digest == ComputeHmac(p, AsBytes(c.body))
             msg == NewUserMessage(rand.id, c.from, c.to, ciphertext, digest)
         IN  [inner |-> [inner EXCEPT !.messages = Append(@, msg)],
              result |-> Ok("Message sent")]

SerialFetchMessages(inner, c, p) ==
    IF c.username \notin inner.logged_in_users
    THEN [inner |-> inner, result |-> Err("InvalidCredentials")]
    ELSE [inner |-> inner,
          result |-> Ok(ToJsonString(GatherResults(p, inner.messages, c.username)))]

SerialDeleteMessage(inner, c) ==
    IF c.username \notin inner.logged_in_users
    THEN [inner |-> inner, result |-> Err("InvalidCredentials")]
    ELSE LET kept == Retain(inner.messages, c.username, c.msg_id)
         IN  IF Len(kept) = Len(inner.messages)
             THEN [inner |-> [inner EXCEPT !.messages = kept],
                   result |-> Err("MessageNotFound")]
             ELSE [inner |-> [inner EXCEPT !.messages = kept],
                   result |-> Ok("Deleted message " \o c.msg_id)]

\* process_client's match on the command
Execute(inner, c, p, rand) ==
    CASE c.action = "SignUp" -> SerialSignUp(inner, c)
      [] c.action = "SignIn" -> SerialSignIn(inner, c)
      [] c.action = "SignOut" -> SerialSignOut(inner, c)
      [] c.action = "SendMessage" -> SerialSendMessage(inner, c, p, rand)
      [] c.action = "FetchMessages" -> SerialFetchMessages(inner, c, p)
      [] c.action = "DeleteMessage" -> SerialDeleteMessage(inner, c)

\* the handler process_client calls for a command
Handler(c) ==
    CASE c.action = "SignUp" -> "sign_up"
      [] c.action = "SignIn" -> "sign_in"
      [] c.action = "SignOut" -> "sign_out"
      [] c.action = "SendMessage" -> "send_message"
      [] c.action = "FetchMessages" -> "fetch_messages"
      [] c.action = "DeleteMessage" -> "delete_message"

(***************************************************************************)
(* The Mutex.                                                              *)
(***************************************************************************)
\* a lock() that does not wait for the holder
MutexLockNoWait(t) == ~poisoned /\ holder' = t

\* state.inner.lock().unwrap() returning the guard: waits while another task
\* holds it
MutexLock(t) == holder = 0 /\ ~poisoned /\ holder' = t

\* the guard dropping at the end of the handler
MutexUnlock(t) == holder' = IF holder = t THEN 0 ELSE holder

\* a return that gives the guard back only on success
ReturnKeepsGuardOnError(t, r, rand) ==
    /\ pc' = [pc EXCEPT ![t] = "done"]
    /\ result' = [result EXCEPT ![t] = r]
    /\ local' = [local EXCEPT ![t] = NoLocals]
    /\ IF r.tag = "Ok" THEN MutexUnlock(t) ELSE holder' = holder
    /\ LET e == Execute(serial, cmd[t], padlock, rand)
       IN  /\ serial' = e.inner
           /\ serial_result' = [serial_result EXCEPT ![t] = e.result]

\* a handler returning r: its locals and the guard are dropped
Return(t, r, rand) ==
    /\ pc' = [pc EXCEPT ![t] = "done"]
    /\ result' = [result EXCEPT ![t] = r]
    /\ local' = [local EXCEPT ![t] = NoLocals]
    /\ MutexUnlock(t)
    /\ LET e == Execute(serial, cmd[t], padlock, rand)
       IN  /\ serial' = e.inner
           /\ serial_result' = [serial_result EXCEPT ![t] = e.result]

Goto(t, label) == pc' = [pc EXCEPT ![t] = label]

\* SendMessage commands that will still draw an id
SendsInFlight ==
    Cardinality({t \in Tasks :
        cmd[t].action = "SendMessage" /\ pc[t] \notin {"idle", "done", "panicked"}})

(***************************************************************************)
(* main.rs: a connection is accepted, its command read and parsed, and     *)
(* process_client called.                                                  *)
(***************************************************************************)
Accept(t) ==
    /\ pc[t] = "idle"
    /\ issued < MaxCommands
    /\ \E c \in ServerCommand :
          /\ c.action = "SendMessage" => uuid_count + SendsInFlight < MaxUuids
          /\ cmd' = [cmd EXCEPT ![t] = c]
    /\ Goto(t, "lock")
    /\ issued' = issued + 1
    /\ UNCHANGED <<padlock, inner_vars, holder, poisoned, local, result,
                   uuid_count, serial_vars>>

\* the same, for the runs that fill the message store
AcceptStore(t) ==
    /\ pc[t] = "idle"
    /\ issued < MaxStoreCommands
    /\ \E c \in StoreCommands :
          /\ c.action = "SendMessage" => uuid_count + SendsInFlight < MaxStoreUuids
          /\ cmd' = [cmd EXCEPT ![t] = c]
    /\ Goto(t, "lock")
    /\ issued' = issued + 1
    /\ UNCHANGED <<padlock, inner_vars, holder, poisoned, local, result,
                   uuid_count, serial_vars>>

\* a connection whose command is a FetchMessages
AcceptFetch(t) ==
    /\ pc[t] = "idle"
    /\ issued < MaxFetches
    /\ \E c \in FetchMessagesCommands : cmd' = [cmd EXCEPT ![t] = c]
    /\ Goto(t, "lock")
    /\ issued' = issued + 1
    /\ UNCHANGED <<padlock, inner_vars, holder, poisoned, local, result,
                   uuid_count, serial_vars>>

\* the first line of every handler
Lock(t) ==
    /\ pc[t] = "lock"
    /\ MutexLock(t)
    /\ Goto(t, Handler(cmd[t]))
    /\ UNCHANGED <<padlock, inner_vars, poisoned, cmd, local, result, issued,
                   uuid_count, serial_vars>>

\* handle_client writes the response and the task ends
Respond(t) ==
    /\ pc[t] = "done"
    /\ Goto(t, "idle")
    /\ cmd' = [cmd EXCEPT ![t] = NoCommand]
    /\ result' = [result EXCEPT ![t] = NoResult]
    /\ serial_result' = [serial_result EXCEPT ![t] = NoResult]
    /\ UNCHANGED <<padlock, inner_vars, holder, poisoned, local, issued,
                   uuid_count, serial>>

(***************************************************************************)
(* clientinp.rs: the handlers, one action per step under the guard.        *)
(***************************************************************************)
\* a sign_up that inserts without looking the username up
SignUpNoCheck(t) ==
    /\ pc[t] = "sign_up"
    /\ Goto(t, "sign_up_insert")
    /\ UNCHANGED <<holder, local, result, serial_vars>>
    /\ UNCHANGED <<padlock, inner_vars, poisoned, cmd, issued, uuid_count>>

\* sign_up: if guard.users.contains_key(&username) { return Err(UsernameTaken) }
SignUp(t) ==
    /\ pc[t] = "sign_up"
    /\ IF cmd[t].username \in DOMAIN users
       THEN Return(t, Err("UsernameTaken"), NoRand)
       ELSE /\ Goto(t, "sign_up_insert")
            /\ UNCHANGED <<holder, local, result, serial_vars>>
    /\ UNCHANGED <<padlock, inner_vars, poisoned, cmd, issued, uuid_count>>

\* sign_up: guard.users.insert(username, password); Ok("User created")
SignUpInsert(t) ==
    /\ pc[t] = "sign_up_insert"
    /\ users' = MapInsert(users, cmd[t].username, cmd[t].password)
    /\ Return(t, Ok("User created"), NoRand)
    /\ UNCHANGED <<padlock, logged_in_users, messages, poisoned, cmd, issued,
                   uuid_count>>

\* a sign_in that takes a missing user's password to be the given one
SignInNoLookup(t) ==
    /\ pc[t] = "sign_in"
    /\ local' = [local EXCEPT ![t].stored_pass =
                    IF cmd[t].username \in DOMAIN users
                    THEN users[cmd[t].username] ELSE cmd[t].password]
    /\ Goto(t, "sign_in_check")
    /\ UNCHANGED <<holder, result, serial_vars>>
    /\ UNCHANGED <<padlock, inner_vars, poisoned, cmd, issued, uuid_count>>

\* sign_in: guard.users.get(&username).ok_or(UserNotFound)?
SignIn(t) ==
    /\ pc[t] = "sign_in"
    /\ IF cmd[t].username \notin DOMAIN users
       THEN Return(t, Err("UserNotFound"), NoRand)
       ELSE /\ local' = [local EXCEPT ![t].stored_pass = users[cmd[t].username]]
            /\ Goto(t, "sign_in_check")
            /\ UNCHANGED <<holder, result, serial_vars>>
    /\ UNCHANGED <<padlock, inner_vars, poisoned, cmd, issued, uuid_count>>

\* a sign_in that marks the user logged in before comparing the password
SignInCheckInsertFirst(t) ==
    /\ pc[t] = "sign_in_check"
    /\ logged_in_users' = logged_in_users \cup {cmd[t].username}
    /\ IF local[t].stored_pass # cmd[t].password
       THEN Return(t, Err("InvalidCredentials"), NoRand)
       ELSE Return(t, Ok(cmd[t].username \o " signed in"), NoRand)
    /\ UNCHANGED <<padlock, users, messages, poisoned, cmd, issued, uuid_count>>

\* sign_in: the password comparison, then logged_in_users.insert
SignInCheck(t) ==
    /\ pc[t] = "sign_in_check"
    /\ IF local[t].stored_pass # cmd[t].password
       THEN /\ Return(t, Err("InvalidCredentials"), NoRand)
            /\ UNCHANGED logged_in_users
       ELSE /\ logged_in_users' = logged_in_users \cup {cmd[t].username}
            /\ Return(t, Ok(cmd[t].username \o " signed in"), NoRand)
    /\ UNCHANGED <<padlock, users, messages, poisoned, cmd, issued, uuid_count>>

\* a sign_out that reports a user who is not logged in as an error
SignOutStrict(t) ==
    /\ pc[t] = "sign_out"
    /\ logged_in_users' = logged_in_users \ {cmd[t].username}
    /\ IF cmd[t].username \in logged_in_users
       THEN Return(t, Ok(cmd[t].username \o " signed out"), NoRand)
       ELSE Return(t, Err("UserNotFound"), NoRand)
    /\ UNCHANGED <<padlock, users, messages, poisoned, cmd, issued, uuid_count>>

\* a sign_out that also drops the messages sent by or addressed to the user
SignOutPurges(t) ==
    /\ pc[t] = "sign_out"
    /\ logged_in_users' = logged_in_users \ {cmd[t].username}
    /\ messages' = SelectSeq(messages, LAMBDA m : m.to # cmd[t].username
                                                  /\ m.from # cmd[t].username)
    /\ Return(t, Ok(cmd[t].username \o " signed out"), NoRand)
    /\ UNCHANGED <<padlock, users, poisoned, cmd, issued, uuid_count>>

\* sign_out: logged_in_users.remove(&username), whatever it returns
SignOut(t) ==
    /\ pc[t] = "sign_out"
    /\ logged_in_users' = logged_in_users \ {cmd[t].username}
    /\ Return(t, Ok(cmd[t].username \o " signed out"), NoRand)
    /\ UNCHANGED <<padlock, users, messages, poisoned, cmd, issued, uuid_count>>

\* a send_message that checks the recipient's session instead of the sender's
SendMessageChecksRecipient(t) ==
    /\ pc[t] = "send_message"
    /\ IF cmd[t].to \notin logged_in_users
       THEN Return(t, Err("InvalidCredentials"), NoRand)
       ELSE /\ Goto(t, "send_encrypt")
            /\ UNCHANGED <<holder, local, result, serial_vars>>
    /\ UNCHANGED <<padlock, inner_vars, poisoned, cmd, issued, uuid_count>>

\* a send_message that refuses a recipient who is not registered
SendMessageNeedsRecipient(t) ==
    /\ pc[t] = "send_message"
    /\ IF cmd[t].from \notin logged_in_users
       THEN Return(t, Err("InvalidCredentials"), NoRand)
       ELSE IF cmd[t].to \notin DOMAIN users
       THEN Return(t, Err("UserNotFound"), NoRand)
       ELSE /\ Goto(t, "send_encrypt")
            /\ UNCHANGED <<holder, local, result, serial_vars>>
    /\ UNCHANGED <<padlock, inner_vars, poisoned, cmd, issued, uuid_count>>

\* send_message: if !guard.logged_in_users.contains(&from) { return Err(..) }
SendMessage(t) ==
    /\ pc[t] = "send_message"
    /\ IF cmd[t].from \notin logged_in_users
       THEN Return(t, Err("InvalidCredentials"), NoRand)
       ELSE /\ Goto(t, "send_encrypt")
            /\ UNCHANGED <<holder, local, result, serial_vars>>
    /\ UNCHANGED <<padlock, inner_vars, poisoned, cmd, issued, uuid_count>>

\* send_message: let ciphertext = guard.padlock.encrypt(body.as_bytes())
SendEncrypt(t) ==
    /\ pc[t] = "send_encrypt"
    /\ \E seed \in NonceSeeds :
          local' = [local EXCEPT ![t].ciphertext =
                       PadlockEncrypt(padlock, AsBytes(cmd[t].body), NonceBytes(seed))]
    /\ Goto(t, "send_hmac")
    /\ UNCHANGED <<padlock, inner_vars, holder, poisoned, cmd, result, issued,
                   uuid_count, serial_vars>>

\* send_message: let digest = guard.padlock.compute_hmac(body.as_bytes())
SendHmac(t) ==
    /\ pc[t] = "send_hmac"
    /\ local' = [local EXCEPT ![t].digest = ComputeHmac(padlock, AsBytes(cmd[t].body))]
    /\ Goto(t, "send_push")
    /\ UNCHANGED <<padlock, inner_vars, holder, poisoned, cmd, result, issued,
                   uuid_count, serial_vars>>

\* a send_message that numbers a message by its place in the store
SendPushReusesSlot(t) ==
    /\ pc[t] = "send_push"
    /\ LET id == UuidString(Len(messages) + 1)
           msg == NewUserMessage(id, cmd[t].from, cmd[t].to,
                                 local[t].ciphertext, local[t].digest)
       IN  /\ messages' = Append(messages, msg)
           /\ Return(t, Ok("Message sent"),
                     [nonce_bytes |-> SubSeq(local[t].ciphertext, 1, NONCE_LEN),
                      id |-> id])
    /\ uuid_count' = uuid_count + 1
    /\ UNCHANGED <<padlock, users, logged_in_users, poisoned, cmd, issued>>

\* send_message: the UserMessage with a new uuid is pushed
SendPush(t) ==
    /\ pc[t] = "send_push"
    /\ LET id == UuidString(uuid_count + 1)
           msg == NewUserMessage(id, cmd[t].from, cmd[t].to,
                                 local[t].ciphertext, local[t].digest)
       IN  /\ messages' = Append(messages, msg)
           /\ Return(t, Ok("Message sent"),
                     [nonce_bytes |-> SubSeq(local[t].ciphertext, 1, NONCE_LEN),
                      id |-> id])
    /\ uuid_count' = uuid_count + 1
    /\ UNCHANGED <<padlock, users, logged_in_users, poisoned, cmd, issued>>

\* a fetch_messages that serves the first connection's task only
FetchMessagesFirstTaskOnly(t) ==
    /\ pc[t] = "fetch_messages"
    /\ IF cmd[t].username \notin logged_in_users \/ t # 1
       THEN Return(t, Err("InvalidCredentials"), NoRand)
       ELSE /\ Goto(t, "fetch_gather")
            /\ UNCHANGED <<holder, local, result, serial_vars>>
    /\ UNCHANGED <<padlock, inner_vars, poisoned, cmd, issued, uuid_count>>

\* fetch_messages: if !guard.logged_in_users.contains(&username) { return Err(..) }
FetchMessages(t) ==
    /\ pc[t] = "fetch_messages"
    /\ IF cmd[t].username \notin logged_in_users
       THEN Return(t, Err("InvalidCredentials"), NoRand)
       ELSE /\ Goto(t, "fetch_gather")
            /\ UNCHANGED <<holder, local, result, serial_vars>>
    /\ UNCHANGED <<padlock, inner_vars, poisoned, cmd, issued, uuid_count>>

\* fetch_messages: the loop over the user's messages and the JSON array
FetchGather(t) ==
    /\ pc[t] = "fetch_gather"
    /\ Return(t, Ok(ToJsonString(GatherResults(padlock, messages, cmd[t].username))),
              NoRand)
    /\ UNCHANGED <<padlock, inner_vars, poisoned, cmd, issued, uuid_count>>

\* delete_message: if !guard.logged_in_users.contains(&username) { return Err(..) }
DeleteMessage(t) ==
    /\ pc[t] = "delete_message"
    /\ IF cmd[t].username \notin logged_in_users
       THEN Return(t, Err("InvalidCredentials"), NoRand)
       ELSE /\ Goto(t, "delete_retain")
            /\ UNCHANGED <<holder, local, result, serial_vars>>
    /\ UNCHANGED <<padlock, inner_vars, poisoned, cmd, issued, uuid_count>>

\* delete_message: len_before, retain, len_after
DeleteRetain(t) ==
    /\ pc[t] = "delete_retain"
    /\ messages' = Retain(messages, cmd[t].username, cmd[t].msg_id)
    /\ local' = [local EXCEPT ![t].len_before = Len(messages),
                              ![t].len_after = Len(messages')]
    /\ Goto(t, "delete_check")
    /\ UNCHANGED <<padlock, users, logged_in_users, holder, poisoned, cmd, result,
                   issued, uuid_count, serial_vars>>

\* a delete_message that reports MessageNotFound whatever retain removed
DeleteCheckAlwaysNotFound(t) ==
    /\ pc[t] = "delete_check"
    /\ Return(t, Err("MessageNotFound"), NoRand)
    /\ UNCHANGED <<padlock, inner_vars, poisoned, cmd, issued, uuid_count>>

\* delete_message: if len_before == len_after { return Err(MessageNotFound) }
DeleteCheck(t) ==
    /\ pc[t] = "delete_check"
    /\ IF local[t].len_before = local[t].len_after
       THEN Return(t, Err("MessageNotFound"), NoRand)
       ELSE Return(t, Ok("Deleted message " \o cmd[t].msg_id), NoRand)
    /\ UNCHANGED <<padlock, inner_vars, poisoned, cmd, issued, uuid_count>>

(***************************************************************************)
(* A failing random source or sealing: encrypt's unwrap()/expect() panic   *)
(* while the guard is held, which poisons the Mutex; lock().unwrap() then  *)
(* panics in every later handler.                                          *)
(***************************************************************************)
\* Padlock::encrypt: sys_rng.fill(..).unwrap() or .expect("Encryption failed")
SendEncryptPanic(t) ==
    /\ pc[t] = "send_encrypt"
    /\ Goto(t, "panicked")
    /\ local' = [local EXCEPT ![t] = NoLocals]
    /\ holder' = 0
    /\ poisoned' = TRUE
    /\ UNCHANGED <<padlock, inner_vars, cmd, result, issued, uuid_count,
                   serial_vars>>

\* state.inner.lock().unwrap() on a poisoned Mutex
LockPoisoned(t) ==
    /\ pc[t] = "lock"
    /\ holder = 0
    /\ poisoned
    /\ Goto(t, "panicked")
    /\ UNCHANGED <<padlock, inner_vars, holder, poisoned, cmd, local, result,
                   issued, uuid_count, serial_vars>>

\* tokio drops the panicked task; the connection closes with no response
TaskAborted(t) ==
    /\ pc[t] = "panicked"
    /\ Goto(t, "idle")
    /\ cmd' = [cmd EXCEPT ![t] = NoCommand]
    /\ UNCHANGED <<padlock, inner_vars, holder, poisoned, local, result, issued,
                   uuid_count, serial_vars>>

(***************************************************************************)
(* Specifications.                                                         *)
(***************************************************************************)
\* process_client and the handler it calls, then the response
Handle(t) ==
    \/ Lock(t)
    \/ SignUp(t)
    \/ SignUpInsert(t)
    \/ SignIn(t)
    \/ SignInCheck(t)
    \/ SignOut(t)
    \/ SendMessage(t)
    \/ SendEncrypt(t)
    \/ SendHmac(t)
    \/ SendPush(t)
    \/ FetchMessages(t)
    \/ FetchGather(t)
    \/ DeleteMessage(t)
    \/ DeleteRetain(t)
    \/ DeleteCheck(t)
    \/ Respond(t)

Next == \E t \in Tasks : Accept(t) \/ Handle(t)

\* the server with a working random source and sealing
Spec == Init /\ [][Next]_vars

\* the same, the runtime running some spawned task as long as one can take a
\* step; clients need not connect
FairSpec == Spec /\ WF_vars(\E t \in Tasks : Handle(t))

StoreNext == \E t \in Tasks : AcceptStore(t) \/ Handle(t)

\* the server with a working random source and sealing, on longer runs with
\* more messages and one password
StoreSpec == Init /\ [][StoreNext]_vars

RecordNext ==
    \E t \in Tasks :
        \/ AcceptFetch(t)
        \/ Lock(t)
        \/ FetchMessages(t)
        \/ FetchGather(t)
        \/ Respond(t)

\* fetch_messages on every store of records
RecordSpec == RecordInit /\ [][RecordNext]_vars

Fault(t) ==
    \/ SendEncryptPanic(t)
    \/ LockPoisoned(t)
    \/ TaskAborted(t)

FaultNext == \E t \in Tasks : Accept(t) \/ Handle(t) \/ Fault(t)

\* the server when encrypt may fail
FaultSpec == Init /\ [][FaultNext]_vars

TypeOK ==
    /\ DOMAIN users \subseteq Usernames
    /\ \A u \in DOMAIN users : users[u] \in Passwords
    /\ logged_in_users \subseteq Usernames
    /\ holder \in {0} \cup Tasks
    /\ issued \in 0..MaxCommands
    /\ uuid_count \in 0..MaxUuids
    /\ Len(messages) <= MaxUuids

(***************************************************************************)
(* Properties.                                                             *)
(***************************************************************************)
IsSignUpOf(t, u) == cmd[t].action = "SignUp" /\ cmd[t].username = u

\* a step in which task t's handler returns
Returns(t) == pc[t] \in GuardedPcs /\ pc'[t] = "done"

\* C1: when every task issues SignUp for the same, so far unregistered,
\* username (these being the first commands of the run), then once all have
\* returned exactly one has Ok and the others UsernameTaken, and users holds
\* that username alone, with the password of the successful SignUp.  At any
\* time at most one finished SignUp of a username has Ok, and the stored
\* password is the one it supplied.
C1_ConcurrentSignUp ==
    \A u \in Usernames :
        /\ (/\ issued = Cardinality(Tasks)
            /\ \A t \in Tasks : pc[t] = "done" /\ IsSignUpOf(t, u))
           => \E w \in Tasks :
                 /\ result[w] = Ok("User created")
                 /\ \A t \in Tasks \ {w} : result[t] = Err("UsernameTaken")
                 /\ DOMAIN users = {u}
                 /\ users[u] = cmd[w].password
        /\ \A t1, t2 \in Tasks :
              (/\ pc[t1] = "done" /\ IsSignUpOf(t1, u) /\ result[t1].tag = "Ok"
               /\ pc[t2] = "done" /\ IsSignUpOf(t2, u) /\ result[t2].tag = "Ok")
              => t1 = t2
        /\ \A t \in Tasks :
              (pc[t] = "done" /\ IsSignUpOf(t, u) /\ result[t].tag = "Ok")
              => (u \in DOMAIN users /\ users[u] = cmd[t].password)

\* both tasks signed up the same username with different passwords and returned
C1_Witness ==
    /\ issued = Cardinality(Tasks)
    /\ \A t \in Tasks : pc[t] = "done" /\ IsSignUpOf(t, "alice")
    /\ \E t1, t2 \in Tasks : cmd[t1].password # cmd[t2].password

\* C2: every username in logged_in_users is a key of users.
C2_SessionsAreRegistered == logged_in_users \subseteq DOMAIN users

\* a user is signed in while another task has signed a user out
C2_Witness ==
    /\ logged_in_users # {}
    /\ \E t \in Tasks : pc[t] = "done" /\ cmd[t].action = "SignOut"

\* the username a message command acts for
Actor(c) == IF c.action = "SendMessage" THEN c.from ELSE c.username

MessageActions == {"SendMessage", "FetchMessages", "DeleteMessage"}

\* the members of a sequence
Range(seq) == {seq[i] : i \in 1..Len(seq)}

\* C3: a SendMessage, FetchMessages or DeleteMessage that returns while its
\* username is not in logged_in_users returns InvalidCredentials and leaves
\* the messages alone; a SendMessage that returns while its sender is in
\* logged_in_users returns Ok and appends exactly one message, from that
\* sender to the named recipient.  A successful SignIn puts the username in
\* logged_in_users, and only a SignOut for it takes it out again.
C3_AuthorizationGate ==
    /\ [][\A t \in Tasks :
            (Returns(t) /\ cmd[t].action \in MessageActions)
            => IF Actor(cmd[t]) \notin logged_in_users
               THEN /\ result'[t] = Err("InvalidCredentials")
                    /\ messages' = messages
               ELSE cmd[t].action = "SendMessage"
                    => /\ result'[t] = Ok("Message sent")
                       /\ Len(messages') = Len(messages) + 1
                       /\ SubSeq(messages', 1, Len(messages)) = messages
                       /\ messages'[Len(messages')].from = cmd[t].from
                       /\ messages'[Len(messages')].to = cmd[t].to]_vars
    /\ [][\A t \in Tasks :
            (Returns(t) /\ cmd[t].action = "SignIn" /\ result'[t].tag = "Ok")
            => cmd[t].username \in logged_in_users']_vars
    /\ [][\A u \in logged_in_users :
            u \notin logged_in_users'
            => \E t \in Tasks :
                  Returns(t) /\ cmd[t].action = "SignOut" /\ cmd[t].username = u]_vars

\* the same SendMessage was refused before the sender signed in and accepted
\* afterwards
C3_Witness ==
    \E t1, t2 \in Tasks :
        /\ pc[t1] = "done" /\ pc[t2] = "done"
        /\ cmd[t1].action = "SendMessage" /\ cmd[t2] = cmd[t1]
        /\ result[t1] = Err("InvalidCredentials")
        /\ result[t2] = Ok("Message sent")
        /\ Len(messages) = 1

\* C4: when a DeleteMessage of an active user u for id i returns, every
\* record that left the store had recipient u and id i and every other
\* record is still there; if no record of u had that id (the id is another
\* user's message, or nobody's) the result is MessageNotFound and messages
\* is what it was before the command, otherwise the result is Ok.
C4_DeleteOwnedOnly ==
    [][\A t \in Tasks :
          (Returns(t) /\ pc[t] = "delete_check")
          => LET before == serial.messages
                 u == cmd[t].username
                 i == cmd[t].msg_id
                 owned == {m \in Range(before) : m.to = u /\ m.id = i}
             IN  /\ Range(before) \ Range(messages') \subseteq owned
                 /\ Range(messages') = Range(before) \ owned
                 /\ IF owned = {}
                    THEN /\ result'[t] = Err("MessageNotFound")
                         /\ messages' = before
                    ELSE result'[t] = Ok("Deleted message " \o i)]_vars

\* a user who is signed in asked to delete a stored message addressed to
\* someone else, and was told MessageNotFound
C4_Witness ==
    \E t \in Tasks :
        /\ pc[t] = "done" /\ cmd[t].action = "DeleteMessage"
        /\ result[t] = Err("MessageNotFound")
        /\ \E m \in Range(messages) :
              m.id = cmd[t].msg_id /\ m.to # cmd[t].username

\* C5: a registered username stays registered with the same password; a
\* SignUp that returns while its username is already registered returns
\* UsernameTaken; and a SignUp that returned Ok has its username registered.
C5_UsernameTakenForever ==
    /\ [][\A u \in DOMAIN users :
            u \in DOMAIN users' /\ users'[u] = users[u]]_vars
    /\ [][\A t \in Tasks :
            (Returns(t) /\ cmd[t].action = "SignUp"
             /\ cmd[t].username \in DOMAIN users)
            => result'[t] = Err("UsernameTaken")]_vars
    /\ [](\A t \in Tasks :
            (pc[t] = "done" /\ cmd[t].action = "SignUp" /\ result[t].tag = "Ok")
            => cmd[t].username \in DOMAIN users)

\* a second SignUp of a registered username, with another password, was
\* refused, other commands having run in between
C5_Witness ==
    \E t \in Tasks :
        /\ pc[t] = "done" /\ cmd[t].action = "SignUp"
        /\ result[t] = Err("UsernameTaken")
        /\ users[cmd[t].username] # cmd[t].password
        /\ cmd[t].username \in logged_in_users

\* C6: a SignIn returns UserNotFound when its username is not a key of users,
\* InvalidCredentials when the stored password differs from the given one,
\* and Ok otherwise, adding the username to logged_in_users; a failed SignIn
\* leaves logged_in_users as it was.
C6_SignInOutcomes ==
    [][\A t \in Tasks :
          (Returns(t) /\ cmd[t].action = "SignIn")
          => LET u == cmd[t].username
             IN  IF u \notin DOMAIN users
                 THEN /\ result'[t] = Err("UserNotFound")
                      /\ logged_in_users' = logged_in_users
                 ELSE IF users[u] # cmd[t].password
                 THEN /\ result'[t] = Err("InvalidCredentials")
                      /\ logged_in_users' = logged_in_users
                 ELSE /\ result'[t] = Ok(u \o " signed in")
                      /\ logged_in_users' = logged_in_users \cup {u}]_vars

\* a SignIn with the wrong password failed for a user who is signed in, and
\* the user is still signed in
C6_Witness ==
    \E t \in Tasks :
        /\ pc[t] = "done" /\ cmd[t].action = "SignIn"
        /\ result[t] = Err("InvalidCredentials")
        /\ cmd[t].username \in logged_in_users

\* C7: a SignOut always returns Ok; it leaves users and messages alone and
\* takes exactly its username out of logged_in_users, so when the username
\* was not there nothing changes, and a second SignOut changes nothing more.
C7_SignOutIdempotent ==
    [][\A t \in Tasks :
          (Returns(t) /\ cmd[t].action = "SignOut")
          => LET u == cmd[t].username
             IN  /\ result'[t] = Ok(u \o " signed out")
                 /\ users' = users /\ messages' = messages
                 /\ logged_in_users' = logged_in_users \ {u}
                 /\ u \notin logged_in_users => logged_in_users' = logged_in_users
                 /\ logged_in_users' \ {u} = logged_in_users']_vars

\* both tasks signed the same unregistered user out, one after the other,
\* and both succeeded
C7_Witness ==
    /\ \A t \in Tasks :
          /\ pc[t] = "done" /\ cmd[t].action = "SignOut"
          /\ cmd[t].username = "bob"
          /\ result[t] = Ok("bob signed out")
    /\ "bob" \notin DOMAIN users

\* C8: at most one task is between lock() and the drop of the guard, and it
\* is the holder; whenever no task is there, users, logged_in_users and
\* messages are what running the returned commands one at a time, in the
\* order of their returns, leaves; and every returned command has the result
\* it has in that serial run.
C8_Serialized ==
    /\ Cardinality(InGuard) <= 1
    /\ InGuard = IF holder = 0 THEN {} ELSE {holder}
    /\ InGuard = {} => Inner = serial
    /\ \A t \in Tasks : pc[t] = "done" => result[t] = serial_result[t]

\* a send_message is about to push its message while the recipient's
\* FetchMessages waits for the lock
C8_Witness ==
    \E t1, t2 \in Tasks :
        /\ pc[t1] = "send_push"
        /\ pc[t2] = "lock" /\ cmd[t2].action = "FetchMessages"
        /\ cmd[t2].username = cmd[t1].to
        /\ cmd[t2].username \in logged_in_users

\* C9: when sealing fails in send_message the command returns Internal and
\* the Mutex is not poisoned, so every command that calls lock() afterwards
\* gets the guard and runs its handler.
C9_CryptoFailureIsolated ==
    /\ [][\A t \in Tasks :
            (pc[t] = "send_encrypt" /\ pc'[t] \notin {"send_encrypt", "send_hmac"})
            => /\ pc'[t] = "done"
               /\ result'[t].tag = "Err"
               /\ result'[t].value = "Internal"]_vars
    /\ [](~poisoned)
    /\ [][\A t \in Tasks :
            (pc[t] = "lock" /\ pc'[t] # "lock") => pc'[t] \in GuardedPcs]_vars

\* C10: a task that is not inside a handler does not hold the guard, whatever
\* its handler returned, and the guard is held only by a task inside a
\* handler; so every task waiting in lock() gets the guard and returns.
C10_GuardReleased ==
    /\ [](\A t \in Tasks : pc[t] \notin GuardedPcs => holder # t)
    /\ [](holder # 0 => pc[holder] \in GuardedPcs)
    /\ \A t \in Tasks : (pc[t] = "lock") ~> (pc[t] = "done")

\* a command returned an error and the guard is free while another command
\* waits in lock()
C10_Witness ==
    \E t1, t2 \in Tasks :
        /\ pc[t1] = "done" /\ result[t1] = Err("MessageNotFound")
        /\ holder = 0
        /\ pc[t2] = "lock"

\* the ids Uuid::new_v4 has handed out so far
AllocatedIds == {UuidString(n) : n \in 1..uuid_count}

\* C11: no two stored messages have the same id, every stored id is one that
\* was handed out, and the id a send_message pushes has not been handed out
\* before, whether or not the message that carried it is still stored; ids
\* once handed out stay handed out.
C11_UniqueIds ==
    /\ [](\A i, j \in 1..Len(messages) :
            messages[i].id = messages[j].id => i = j)
    /\ [](\A m \in Range(messages) : m.id \in AllocatedIds)
    /\ [][AllocatedIds \subseteq AllocatedIds']_vars
    /\ [][\A t \in Tasks :
            (Returns(t) /\ pc[t] = "send_push")
            => /\ messages'[Len(messages')].id \notin AllocatedIds
               /\ messages'[Len(messages')].id \in AllocatedIds']_vars

\* two messages were sent and the first one deleted: the one that is left
\* carries the second id
C11_Witness ==
    \E t1, t2 \in Tasks :
        /\ pc[t1] = "done" /\ cmd[t1].action = "DeleteMessage"
        /\ cmd[t1].msg_id = UuidString(1)
        /\ result[t1] = Ok("Deleted message " \o UuidString(1))
        /\ pc[t2] = "done" /\ result[t2] = Ok("Message sent")
        /\ uuid_count = 2
        /\ Len(messages) = 1 /\ messages[1].id = UuidString(2)

\* the stored messages addressed to a user, in the order of the store
AddressedTo(msgs, u) == SelectSeq(msgs, LAMBDA m : m.to = u)

\* the entries of a sequence of messages, one each, in the same order
EntriesOf(p, msgs) == [k \in 1..Len(msgs) |-> ResultEntry(p, msgs[k])]

\* C12: a FetchMessages of an active user u returns Ok with one entry for
\* each stored message whose recipient is u, in the order of the store, and
\* nothing for the other messages, and leaves the store alone; the store
\* keeps the messages in the order they were sent: a step leaves the messages
\* that stay in their order and puts new ones behind them.
C12_FetchInOrder ==
    /\ [][\A t \in Tasks :
            (Returns(t) /\ pc[t] = "fetch_gather")
            => LET mine == AddressedTo(messages, cmd[t].username)
               IN  /\ cmd[t].username \in logged_in_users
                   /\ result'[t] = Ok(ToJsonString(EntriesOf(padlock, mine)))
                   /\ messages' = messages]_vars
    /\ [][LET kept == SelectSeq(messages, LAMBDA m : m \in Range(messages'))
          IN  /\ Len(messages') >= Len(kept)
              /\ SubSeq(messages', 1, Len(kept)) = kept]_vars

\* a user fetched two messages, and the answer lists the older one first
C12_Witness ==
    \E t \in Tasks :
        /\ pc[t] = "done" /\ cmd[t].action = "FetchMessages"
        /\ Len(messages) = 2
        /\ messages[1].id = UuidString(1) /\ messages[2].id = UuidString(2)
        /\ \A m \in Range(messages) : m.to = cmd[t].username
        /\ result[t] = Ok(ToJsonString(<<ResultEntry(padlock, messages[1]),
                                         ResultEntry(padlock, messages[2])>>))


\* C13: the record a send_message stores for body P decrypts to P and its
\* MAC verifies against P, so its entry names the id, the sender and P with
\* no marker; and every message a FetchMessages lists decrypts and verifies.
C13_RoundTrip ==
    /\ [][\A t \in Tasks :
            (Returns(t) /\ pc[t] = "send_push")
            => LET m == messages'[Len(messages')]
                   P == AsBytes(cmd[t].body)
               IN  /\ PadlockDecrypt(padlock, m.body_enc) = [ok |-> TRUE, bytes |-> P]
                   /\ VerifyHmac(padlock, P, m.body_hash)
                   /\ ResultEntry(padlock, m)
                        = CleanEntry(m.id, cmd[t].from, cmd[t].body)]_vars
    /\ [][\A t \in Tasks :
            (Returns(t) /\ pc[t] = "fetch_gather")
            => \A m \in Range(AddressedTo(messages, cmd[t].username)) :
                  LET decrypted == PadlockDecrypt(padlock, m.body_enc)
                  IN  /\ decrypted.ok
                      /\ VerifyHmac(padlock, decrypted.bytes, m.body_hash)]_vars

C15_ErrorsChangeNothing ==
    [][\A t \in Tasks :
          (Returns(t) /\ result'[t].tag = "Err")
          => /\ result'[t].value \in {"UsernameTaken", "UserNotFound",
                                      "InvalidCredentials", "MessageNotFound"}
             /\ users' = serial.users
             /\ logged_in_users' = serial.logged_in_users
             /\ messages' = serial.messages
             /\ LET again == Execute(Inner', cmd[t], padlock, NoRand)
                IN  /\ again.result = result'[t]
                    /\ again.inner = Inner']_vars

\* the same SignIn with a wrong password was refused twice, and nobody is
\* signed in
C15_Witness ==
    /\ \E t1, t2 \in Tasks :
          /\ t1 # t2
          /\ pc[t1] = "done" /\ pc[t2] = "done"
          /\ cmd[t1].action = "SignIn" /\ cmd[t2] = cmd[t1]
          /\ result[t1] = Err("InvalidCredentials")
          /\ result[t2] = Err("InvalidCredentials")
    /\ logged_in_users = {}
    /\ issued = 3

\* C16: a successful SignUp(u, p) stores p for u; an entry of users is never
\* removed or changed; so in every state a SignIn(u, q) for a registered u
\* succeeds when q is the stored password and fails with InvalidCredentials
\* otherwise, both as the next command and whenever a SignIn returns.
C16_DirectoryImmutable ==
    /\ [][\A t \in Tasks :
            (Returns(t) /\ cmd[t].action = "SignUp" /\ result'[t].tag = "Ok")
            => /\ cmd[t].username \in DOMAIN users'
               /\ users'[cmd[t].username] = cmd[t].password]_vars
    /\ [][\A u \in DOMAIN users :
            u \in DOMAIN users' /\ users'[u] = users[u]]_vars
    /\ [](\A u \in DOMAIN serial.users, q \in Passwords :
            LET r == Execute(serial,
                             [action |-> "SignIn", username |-> u, password |-> q],
                             padlock, NoRand).result
            IN  IF q = serial.users[u]
                THEN r = Ok(u \o " signed in")
                ELSE r = Err("InvalidCredentials"))
    /\ [][\A t \in Tasks :
            (Returns(t) /\ cmd[t].action = "SignIn"
             /\ cmd[t].username \in DOMAIN users)
            => (result'[t].tag = "Ok"
                <=> cmd[t].password = users[cmd[t].username])]_vars

\* both users are registered; alice signed in with her password, and a
\* SignIn for her with the other password was refused
C16_Witness ==
    /\ DOMAIN users = Usernames
    /\ \E t1, t2 \in Tasks :
          /\ pc[t1] = "done" /\ pc[t2] = "done"
          /\ cmd[t1] = [action |-> "SignIn", username |-> "alice",
                        password |-> users["alice"]]
          /\ result[t1] = Ok("alice signed in")
          /\ cmd[t2].action = "SignIn" /\ cmd[t2].username = "alice"
          /\ cmd[t2].password # users["alice"]
          /\ result[t2] = Err("InvalidCredentials")

\* C17: a SignOut, SignIn or SignUp returns with messages as it was before
\* the command; and in every state, for a registered user u, signing u out,
\* signing u in again and fetching leaves messages alone and returns one
\* entry for each stored message addressed to u.
C17_SessionsLeaveMessages ==
    /\ [][\A t \in Tasks :
            (Returns(t) /\ cmd[t].action \in {"SignOut", "SignIn", "SignUp"})
            => messages' = messages /\ messages' = serial.messages]_vars
    /\ [](\A u \in DOMAIN serial.users :
            LET out == Execute(serial, [action |-> "SignOut", username |-> u],
                               padlock, NoRand)
                back == Execute(out.inner,
                                [action |-> "SignIn", username |-> u,
                                 password |-> serial.users[u]], padlock, NoRand)
                seen == Execute(back.inner,
                                [action |-> "FetchMessages", username |-> u],
                                padlock, NoRand)
            IN  /\ out.inner.messages = serial.messages
                /\ back.inner.messages = serial.messages
                /\ seen.inner.messages = serial.messages
                /\ seen.result
                     = Ok(ToJsonString(EntriesOf(padlock,
                                                 AddressedTo(serial.messages, u)))))

\* alice sent herself a message and signed out: she is signed out and the
\* message is still stored
C17_Witness ==
    \E t \in Tasks :
        /\ pc[t] = "done" /\ cmd[t] = [action |-> "SignOut", username |-> "alice"]
        /\ "alice" \notin logged_in_users
        /\ \E m \in Range(messages) : m.from = "alice" /\ m.to = "alice"


\* C18: a DeleteMessage of u for id i that returns Ok has removed exactly one
\* record, one with recipient u and id i; the other messages are all still
\* there, unchanged and in the same order; users and logged_in_users are as
\* before the command; and the same DeleteMessage run again returns
\* MessageNotFound and changes nothing.
C18_DeleteExactlyOne ==
    [][\A t \in Tasks :
          (Returns(t) /\ pc[t] = "delete_check" /\ result'[t].tag = "Ok")
          => LET before == serial.messages
                 u == cmd[t].username
                 i == cmd[t].msg_id
             IN  /\ result'[t] = Ok("Deleted message " \o i)
                 /\ Len(messages') = Len(before) - 1
                 /\ \E k \in 1..Len(before) :
                       /\ before[k].to = u /\ before[k].id = i
                       /\ messages' = SubSeq(before, 1, k - 1)
                                      \o SubSeq(before, k + 1, Len(before))
                 /\ users' = serial.users
                 /\ logged_in_users' = serial.logged_in_users
                 /\ LET again == Execute(Inner', cmd[t], padlock, NoRand)
                    IN  /\ again.result = Err("MessageNotFound")
                        /\ again.inner = Inner']_vars

\* a user with two messages deleted one, and the same DeleteMessage again
\* was refused; the other message is still stored
C18_Witness ==
    \E t1, t2 \in Tasks :
        /\ pc[t1] = "done" /\ pc[t2] = "done"
        /\ cmd[t1].action = "DeleteMessage" /\ cmd[t2] = cmd[t1]
        /\ result[t1] = Ok("Deleted message " \o cmd[t1].msg_id)
        /\ result[t2] = Err("MessageNotFound")
        /\ uuid_count = 2
        /\ Len(messages) = 1
        /\ messages[1].to = cmd[t1].username
        /\ messages[1].id # cmd[t1].msg_id

\* the message commands that act for a user
MessageCommandsOf(u) ==
    {c \in SendMessageCommands \cup FetchMessagesCommands
           \cup DeleteMessageCommands : Actor(c) = u}

\* C19: what a SendMessage, FetchMessages or DeleteMessage returns is what the
\* command returns on the state before it, whichever task runs it, and it is
\* InvalidCredentials exactly when its username is not in logged_in_users;
\* after a successful SignIn of u by any task no message command for u is
\* refused for its credentials, and after a SignOut of u by any task every
\* one is.
C19_AuthorizationBySetOnly ==
    /\ [][\A t \in Tasks :
            (Returns(t) /\ cmd[t].action \in MessageActions)
            => /\ result'[t] = Execute(serial, cmd[t], padlock, NoRand).result
               /\ result'[t] = Err("InvalidCredentials")
                    <=> Actor(cmd[t]) \notin serial.logged_in_users]_vars
    /\ [][\A t \in Tasks :
            (Returns(t) /\ cmd[t].action = "SignIn" /\ result'[t].tag = "Ok")
            => \A c \in MessageCommandsOf(cmd[t].username) :
                  Execute(Inner', c, padlock, NoRand).result
                     # Err("InvalidCredentials")]_vars
    /\ [][\A t \in Tasks :
            (Returns(t) /\ cmd[t].action = "SignOut")
            => \A c \in MessageCommandsOf(cmd[t].username) :
                  Execute(Inner', c, padlock, NoRand).result
                     = Err("InvalidCredentials")]_vars

\* one task signed a user in, and the other task's SendMessage from that user
\* was accepted; there was no other SignIn
C19_Witness ==
    \E t1, t2 \in Tasks :
        /\ t1 # t2
        /\ pc[t1] = "done" /\ cmd[t1].action = "SignIn"
        /\ result[t1].tag = "Ok"
        /\ pc[t2] = "done" /\ cmd[t2].action = "SendMessage"
        /\ cmd[t2].from = cmd[t1].username
        /\ result[t2] = Ok("Message sent")
        /\ issued = 3

\* C20: a SendMessage of an active sender returns Ok and stores the message
\* for the recipient it names, registered or not; and in every state, for a
\* username that is not registered, SignUp, SignIn and FetchMessages for it
\* succeed and the answer has one entry for each stored message addressed
\* to it.
C20_RecipientUnchecked ==
    /\ [][\A t \in Tasks :
            (Returns(t) /\ cmd[t].action = "SendMessage"
             /\ cmd[t].from \in serial.logged_in_users)
            => /\ result'[t] = Ok("Message sent")
               /\ Len(messages') = Len(serial.messages) + 1
               /\ messages'[Len(messages')].to = cmd[t].to]_vars
    /\ [](\A u \in Usernames \ DOMAIN serial.users, p \in Passwords :
            LET up == Execute(serial,
                              [action |-> "SignUp", username |-> u, password |-> p],
                              padlock, NoRand)
                in == Execute(up.inner,
                              [action |-> "SignIn", username |-> u, password |-> p],
                              padlock, NoRand)
                seen == Execute(in.inner,
                                [action |-> "FetchMessages", username |-> u],
                                padlock, NoRand)
            IN  /\ up.result = Ok("User created")
                /\ in.result = Ok(u \o " signed in")
                /\ seen.result
                     = Ok(ToJsonString(EntriesOf(padlock,
                                                 AddressedTo(serial.messages, u)))))

\* a message to bob was accepted and is stored, and bob is not registered
C20_Witness ==
    \E t \in Tasks :
        /\ pc[t] = "done" /\ cmd[t].action = "SendMessage"
        /\ cmd[t].to = "bob"
        /\ result[t] = Ok("Message sent")
        /\ "bob" \notin DOMAIN users
        /\ Len(messages) = 1 /\ messages[1].to = "bob"
        /\ serial.messages = messages


=============================================================================
